---- MODULE Spec2Model ----
(***************************************************************************)
(* Model of the DynamoDB durable state store (package dynamodb):           *)
(* DynamoDurableStore.Connect / Disconnect / Ping / WriteState /           *)
(* GetLatestState, the payload resolver toProto and the numeric attribute  *)
(* parsers, run against a model of the states_store table.                 *)
(*                                                                         *)
(* Representation.  An attribute value is [t |-> "S" | "N" | "B", v |-> _]. *)
(* Names (actor ids, manifests) are TLA+ strings.  Decimal text (what      *)
(* strconv formats and parses) is a sequence of one-character strings.     *)
(* Binary data, and the string fields of a protobuf message, are           *)
(* sequences of bytes (0..255).                                            *)
(***************************************************************************)
EXTENDS Integers, Sequences, FiniteSets, TLC

VARIABLES
    tableKey,   \* partition-key attribute of the states_store table
    table,      \* the items held by the states_store table
    client,     \* field DynamoDurableStore.client of the store value
    pending,    \* per caller: the WriteState call in flight (item built, PutItem not yet issued)
    last,       \* outcome of the most recently completed operation
    written,    \* per actor id: the DurableState of the last WriteState that returned nil
    connected   \* some Connect call has returned nil

vars == <<tableKey, table, client, pending, last, written, connected>>

-----------------------------------------------------------------------------
(* Bounds of the model *)

MaxVersion == 2

Actors == {"a1", "a2"}
Callers == {1, 2}
Versions == 1..MaxVersion
Timestamps == {1000}
Shards == {3}

-----------------------------------------------------------------------------
(* strconv: decimal text *)

Digits == <<"0", "1", "2", "3", "4", "5", "6", "7", "8", "9">>

IsDigit(c) == \E d \in 1..10 : Digits[d] = c

DigitVal(c) == (CHOOSE d \in 1..10 : Digits[d] = c) - 1

RECURSIVE FormatUint(_)
FormatUint(n) ==
    IF n < 10 THEN <<Digits[n + 1]>>
    ELSE Append(FormatUint(n \div 10), Digits[(n % 10) + 1])

FormatInt(n) == IF n < 0 THEN <<"-">> \o FormatUint(-n) ELSE FormatUint(n)

RECURSIVE DigitsValue(_, _)
DigitsValue(s, acc) ==
    IF s = <<>> THEN acc
    ELSE DigitsValue(Tail(s), acc * 10 + DigitVal(Head(s)))

AllDigits(s) == s # <<>> /\ \A i \in 1..Len(s) : IsDigit(s[i])

\* strconv.ParseUint(s, 10, 64): no sign is accepted; [n, err].  (The decimal
\* texts of the model stay far below 2^64, so the range error does not arise.)
ParseUint(s) ==
    IF AllDigits(s) THEN [n |-> DigitsValue(s, 0), err |-> FALSE]
    ELSE [n |-> 0, err |-> TRUE]

\* strconv.ParseInt(s, 10, 64): an optional leading sign; [n, err]
ParseInt(s) ==
    IF s # <<>> /\ Head(s) \in {"-", "+"}
    THEN IF AllDigits(Tail(s))
         THEN [n |-> (IF Head(s) = "-" THEN -1 ELSE 1) * DigitsValue(Tail(s), 0),
               err |-> FALSE]
         ELSE [n |-> 0, err |-> TRUE]
    ELSE ParseUint(s)

-----------------------------------------------------------------------------
(* protobuf: the envelope message google.protobuf.Any and the wire format *)

AnyFullName == "google.protobuf.Any"
StateFullName == "ego.v3.DurableState"

\* protoregistry.GlobalTypes: the message types the package's imports register
GlobalTypes == {AnyFullName, StateFullName}

\* utf8.Valid, on the bytes of the model: ASCII, and 255, which no UTF-8 text holds
ValidUTF8(s) == \A i \in 1..Len(s) : s[i] < 128

\* one length-delimited field: tag (field number * 8 + wire type 2), length, bytes;
\* a proto3 field holding its zero value is not written
AppendBytes(field, s) == IF s = <<>> THEN <<>> ELSE <<field * 8 + 2, Len(s)>> \o s

\* proto.Marshal of an *anypb.Any: [buf, err].  A type_url that is not valid
\* UTF-8 ends the encoding after that field, with an error.
Marshal(m) ==
    IF ~ValidUTF8(m.type_url)
    THEN [buf |-> AppendBytes(1, m.type_url), err |-> TRUE]
    ELSE [buf |-> AppendBytes(1, m.type_url) \o AppendBytes(2, m.value), err |-> FALSE]

\* protowire.ConsumeVarint at position i: [n, next, err]
RECURSIVE ConsumeVarint(_, _, _, _)
ConsumeVarint(b, i, shift, acc) ==
    IF i > Len(b) \/ shift > 128 * 128 * 128
    THEN [n |-> 0, next |-> i, err |-> TRUE]
    ELSE IF b[i] < 128
         THEN [n |-> acc + b[i] * shift, next |-> i + 1, err |-> FALSE]
         ELSE ConsumeVarint(b, i + 1, shift * 128, acc + (b[i] - 128) * shift)

\* mt.New(): the empty message of type mt
NewMessage(mt) == [mt |-> mt, type_url |-> <<>>, value |-> <<>>]

\* proto.Unmarshal(b, pm) from position i on: [msg, err]
RECURSIVE UnmarshalFrom(_, _, _)
UnmarshalFrom(b, i, pm) ==
    IF i > Len(b) THEN [msg |-> pm, err |-> FALSE]
    ELSE
    LET tag == ConsumeVarint(b, i, 1, 0)
        num == tag.n \div 8
        wt == tag.n % 8
        bad == [msg |-> pm, err |-> TRUE]
    IN  IF tag.err \/ num = 0 THEN bad
        ELSE IF wt = 0
        THEN LET v == ConsumeVarint(b, tag.next, 1, 0)
             IN  IF v.err THEN bad ELSE UnmarshalFrom(b, v.next, pm)
        ELSE IF wt = 1
        THEN IF tag.next + 7 > Len(b) THEN bad ELSE UnmarshalFrom(b, tag.next + 8, pm)
        ELSE IF wt = 5
        THEN IF tag.next + 3 > Len(b) THEN bad ELSE UnmarshalFrom(b, tag.next + 4, pm)
        ELSE IF wt = 2
        THEN LET n == ConsumeVarint(b, tag.next, 1, 0)
                 body == SubSeq(b, n.next, n.next + n.n - 1)
             IN  IF n.err \/ n.next + n.n - 1 > Len(b) THEN bad
                 ELSE IF pm.mt = AnyFullName /\ num = 1
                 THEN IF ~ValidUTF8(body) THEN bad
                      ELSE UnmarshalFrom(b, n.next + n.n, [pm EXCEPT !.type_url = body])
                 ELSE IF pm.mt = AnyFullName /\ num = 2
                 THEN UnmarshalFrom(b, n.next + n.n, [pm EXCEPT !.value = body])
                 ELSE IF pm.mt = StateFullName /\ num = 1
                 THEN IF ~ValidUTF8(body) THEN bad
                      ELSE UnmarshalFrom(b, n.next + n.n, pm)
                 ELSE IF pm.mt = StateFullName /\ num = 3
                 THEN IF UnmarshalFrom(body, 1, NewMessage(AnyFullName)).err THEN bad
                      ELSE UnmarshalFrom(b, n.next + n.n, pm)
                 ELSE UnmarshalFrom(b, n.next + n.n, pm)
        ELSE bad

Unmarshal(b, pm) == UnmarshalFrom(b, 1, pm)

-----------------------------------------------------------------------------
(* util.go / dynamodb.go: the payload resolver and the numeric parsers *)

ErrNone == "nil"
ErrNotFound == "proto: not found"
ErrDecode == "proto: cannot parse invalid wire-format data"
ErrUnpack == "failed to unpack message"

\* Variants of toProto used to test the claims about it.
ToProtoDecodeFirst(manifest, bytea) ==
    LET out == Unmarshal(bytea, NewMessage(IF manifest \in GlobalTypes THEN manifest ELSE AnyFullName))
    IN  IF out.err THEN [any |-> <<>>, err |-> ErrDecode, unmarshalled |-> TRUE]
        ELSE IF manifest \notin GlobalTypes
        THEN [any |-> <<>>, err |-> ErrNotFound, unmarshalled |-> TRUE]
        ELSE IF out.msg.mt = AnyFullName
        THEN [any |-> <<[type_url |-> out.msg.type_url, value |-> out.msg.value]>>,
              err |-> ErrNone, unmarshalled |-> TRUE]
        ELSE [any |-> <<>>, err |-> ErrUnpack, unmarshalled |-> TRUE]

ToProtoNoCast(manifest, bytea) ==
    IF manifest \notin GlobalTypes
    THEN [any |-> <<>>, err |-> ErrNotFound, unmarshalled |-> FALSE]
    ELSE LET out == Unmarshal(bytea, NewMessage(manifest))
         IN  IF out.err
             THEN [any |-> <<>>, err |-> ErrDecode, unmarshalled |-> TRUE]
             ELSE [any |-> <<[type_url |-> out.msg.type_url, value |-> out.msg.value]>>,
                   err |-> ErrNone, unmarshalled |-> TRUE]

\* toProto(manifest, bytea): [any, err, unmarshalled]; any is <<>> for a nil
\* result, and unmarshalled records whether proto.Unmarshal was called
toProto(manifest, bytea) ==
    IF manifest \notin GlobalTypes
    THEN [any |-> <<>>, err |-> ErrNotFound, unmarshalled |-> FALSE]
    ELSE LET out == Unmarshal(bytea, NewMessage(manifest))
         IN  IF out.err
             THEN [any |-> <<>>, err |-> ErrDecode, unmarshalled |-> TRUE]
             ELSE IF out.msg.mt = AnyFullName
             THEN [any |-> <<[type_url |-> out.msg.type_url, value |-> out.msg.value]>>,
                   err |-> ErrNone, unmarshalled |-> TRUE]
             ELSE [any |-> <<>>, err |-> ErrUnpack, unmarshalled |-> TRUE]

\* element.(*types.AttributeValueMemberN): the assertion panics on a missing
\* attribute (a nil interface) and on a member of another type
Asserts(item, name, t) == name \in DOMAIN item /\ item[name].t = t

\* parseDynamoUint64 / parseDynamoInt64 on a Number member: the error of the
\* parse is discarded and n returned
parseDynamoUint64(element) == ParseUint(element.v).n

parseDynamoInt64(element) == ParseInt(element.v).n

-----------------------------------------------------------------------------
(* DynamoDB: attribute values and the states_store table *)

S(v) == [t |-> "S", v |-> v]
N(v) == [t |-> "N", v |-> v]
B(v) == [t |-> "B", v |-> v]

tableName == "states_store"

\* The partition-key attribute the README tells the user to give the table,
\* and the attribute GetLatestState puts in its lookup key.
DocumentedKey == "PersistenceID"
LookupKey == "PK"

\* the items of tbl stored under partition-key value id
ItemsAt(tbl, keyAttr, id) == {i \in tbl : i[keyAttr].v = id}

ErrBackend == "backend error"
ErrValidation == "ValidationException"

\* Variants of PutItem used to test the claims about WriteState.
PutItemMerge(tbl, keyAttr, item, fault) ==
    IF fault THEN [err |-> ErrBackend, tbl |-> tbl]
    ELSE IF ~(keyAttr \in DOMAIN item /\ item[keyAttr].t = "S")
    THEN [err |-> ErrValidation, tbl |-> tbl]
    ELSE LET old == ItemsAt(tbl, keyAttr, item[keyAttr].v)
             merged == IF old = {} THEN item
                       ELSE LET o == CHOOSE i \in old : TRUE
                            IN  [n \in DOMAIN o \cup DOMAIN item |->
                                    IF n \in DOMAIN item THEN item[n] ELSE o[n]]
         IN  [err |-> ErrNone, tbl |-> (tbl \ old) \cup {merged}]

\* a table with a sort key, which keeps every put as one more item of the key
PutItemHistory(tbl, keyAttr, item, fault) ==
    IF fault THEN [err |-> ErrBackend, tbl |-> tbl]
    ELSE IF ~(keyAttr \in DOMAIN item /\ item[keyAttr].t = "S")
    THEN [err |-> ErrValidation, tbl |-> tbl]
    ELSE LET seq == Cardinality(ItemsAt(tbl, keyAttr, item[keyAttr].v))
         IN  [err |-> ErrNone,
              tbl |-> tbl \cup {item @@ [SortKey |-> N(FormatUint(seq))]}]

PutItemClear(tbl, keyAttr, item, fault) ==
    IF fault THEN [err |-> ErrBackend, tbl |-> tbl]
    ELSE IF ~(keyAttr \in DOMAIN item /\ item[keyAttr].t = "S")
    THEN [err |-> ErrValidation, tbl |-> tbl]
    ELSE [err |-> ErrNone, tbl |-> {item}]

\* client.PutItem on a table whose partition key is keyAttr: [err, tbl].
\* fault is a failure of the call (network, throttling); an item without the
\* table's key attribute is rejected; otherwise the item replaces whatever is
\* stored under its key.
PutItem(tbl, keyAttr, item, fault) ==
    IF fault THEN [err |-> ErrBackend, tbl |-> tbl]
    ELSE IF ~(keyAttr \in DOMAIN item /\ item[keyAttr].t = "S")
    THEN [err |-> ErrValidation, tbl |-> tbl]
    ELSE [err |-> ErrNone,
          tbl |-> (tbl \ ItemsAt(tbl, keyAttr, item[keyAttr].v)) \cup {item}]

\* client.GetItem: [err, Item]; Item is <<>> for a nil map (nothing stored
\* under the key).  A key that is not exactly the table's key attribute is
\* rejected.
GetItem(tbl, keyAttr, key, fault) ==
    IF fault THEN [err |-> ErrBackend, Item |-> <<>>]
    ELSE IF ~(DOMAIN key = {keyAttr} /\ key[keyAttr].t = "S")
    THEN [err |-> ErrValidation, Item |-> <<>>]
    ELSE LET found == ItemsAt(tbl, keyAttr, key[keyAttr].v)
         IN  [err |-> ErrNone,
              Item |-> IF found = {} THEN <<>> ELSE <<CHOOSE i \in found : TRUE>>]

-----------------------------------------------------------------------------
(* Inputs *)

\* payloads: an envelope around Account{balance: 100}, and one whose type_url
\* is not valid UTF-8, which proto.Marshal refuses
AnyGood == [type_url |-> <<116, 46, 65>>, value |-> <<8, 100>>]
AnyBad == [type_url |-> <<255>>, value |-> <<8, 100>>]

\* the *egopb.DurableState values WriteState is called with: every version of
\* the well-formed payload, and the first version of the other one
DurableStates ==
    [PersistenceId : Actors, VersionNumber : Versions, ResultingState : {AnyGood},
     Timestamp : Timestamps, Shard : Shards]
    \cup
    [PersistenceId : Actors, VersionNumber : {1}, ResultingState : {AnyBad},
     Timestamp : Timestamps, Shard : Shards]

\* Items put in the table by other writers before the store is used, keyed by
\* the table's own partition key.
Foreign(keyAttr, id, manifest, payload, ts, shard) ==
    (keyAttr :> S(id)) @@
    [VersionNumber |-> N(<<"1">>), StatePayload |-> B(payload),
     StateManifest |-> S(manifest), Timestamp |-> ts, ShardNumber |-> shard]

Truncated == <<10, 5, 1>>

\* a conforming item that carries one more attribute
LegacyItem(keyAttr, id) ==
    Foreign(keyAttr, id, AnyFullName, Marshal(AnyGood).buf, N(<<"1", "0", "0", "0">>), N(<<"3">>))
        @@ [Legacy |-> S("x")]

ForeignItems(keyAttr, id) ==
    { Foreign(keyAttr, id, AnyFullName, Marshal(AnyGood).buf, N(<<"-", "5">>), N(<<"3">>)),
      Foreign(keyAttr, id, "samplepb.Account", Truncated, N(<<"1", "0", "0", "0">>), N(<<"3">>)),
      Foreign(keyAttr, id, AnyFullName, Truncated, N(<<"1", "0", "0", "0">>), N(<<"3">>)),
      Foreign(keyAttr, id, StateFullName, <<10, 2, 97, 49>>, N(<<"1", "0", "0", "0">>), N(<<"3">>)),
      Foreign(keyAttr, id, AnyFullName, Marshal(AnyGood).buf, S(<<"1", "0", "0", "0">>), S(<<"3">>)),
      Foreign(keyAttr, id, AnyFullName, Marshal(AnyGood).buf, N(<<"1", "0", "0", "0">>), N(<<"-", "1">>)),
      LegacyItem(keyAttr, id) }

-----------------------------------------------------------------------------
(* dynamodb.go: DynamoDurableStore *)

NilClient == "nil"
NewClient == "dynamodb.Client"

ErrConfig == "unable to load SDK config"
ErrPing == "unable to connect to DynamoDB"
ErrUpsert == "failed to upsert state into the dynamodb"
ErrFetch == "failed to fetch the latest state from the dynamodb"
ErrUnmarshal == "failed to unmarshal the durable state"

\* What a completed call left behind: the operation, the actor id, how it
\* ended (kind: "nil" a nil error, "err" an error, "absent" a nil record with a
\* nil error, "state" a record with a nil error, "panic" a run-time panic),
\* the error and its cause, the record returned, the item put or fetched, the
\* DurableState written, the items the put replaced, the failure injected in
\* the backend call, whether proto.Marshal failed and whether proto.Unmarshal ran.
Out(op, id, kind, err, cause) ==
    [op |-> op, id |-> id, kind |-> kind, err |-> err, cause |-> cause,
     state |-> <<>>, item |-> <<>>, in |-> <<>>, before |-> {},
     fault |-> FALSE, merr |-> FALSE, unmarshalled |-> FALSE]

\* Connect, on the receiver d (a copy of the store: the method has a value
\* receiver): [d, err] is the copy as Connect leaves it and the error returned
ConnectOn(d, loadFails) ==
    IF loadFails THEN [d |-> d, err |-> ErrConfig]
    ELSE [d |-> [d EXCEPT !.client = NewClient], err |-> ErrNone]

\* Ping on the receiver d
PingOn(d, fault) ==
    IF d.client = NilClient THEN Out("Ping", "", "panic", ErrNone, ErrNone)
    ELSE IF fault THEN Out("Ping", "", "err", ErrPing, ErrBackend)
    ELSE Out("Ping", "", "nil", ErrNone, ErrNone)

\* WriteState, up to the PutItem call: the item to upsert, and whether
\* proto.Marshal returned an error (which the code discards)
WriteStateItem(state) ==
    LET m == Marshal(state.ResultingState)
        bytea == m.buf
        manifest == AnyFullName
    IN  [item |-> [PersistenceID |-> S(state.PersistenceId),
                   VersionNumber |-> N(FormatUint(state.VersionNumber)),
                   StatePayload  |-> B(bytea),
                   StateManifest |-> S(manifest),
                   Timestamp     |-> S(FormatInt(state.Timestamp)),
                   ShardNumber   |-> S(FormatUint(state.Shard))],
         merr |-> m.err]

\* A variant of WriteStatePut with an optimistic version check: a write whose
\* version is not above the stored one is refused.
WriteStatePutVersioned(d, tbl, keyAttr, state, built, fault) ==
    LET id == state.PersistenceId
        base == [Out("WriteState", id, "nil", ErrNone, ErrNone) EXCEPT
                    !.in = <<state>>, !.item = <<built.item>>,
                    !.before = ItemsAt(tbl, keyAttr, id),
                    !.merr = built.merr, !.fault = fault]
        stale == \E i \in ItemsAt(tbl, keyAttr, id) :
                    ParseUint(i.VersionNumber.v).n >= state.VersionNumber
        put == PutItem(tbl, keyAttr, built.item, fault)
    IN  IF d.client = NilClient
        THEN [out |-> [base EXCEPT !.kind = "panic"], tbl |-> tbl]
        ELSE IF stale \/ put.err # ErrNone
        THEN [out |-> [base EXCEPT !.kind = "err", !.err = ErrUpsert,
                                   !.cause = IF put.err # ErrNone THEN put.err
                                             ELSE "ConditionalCheckFailedException"],
              tbl |-> tbl]
        ELSE [out |-> base, tbl |-> put.tbl]

\* WriteState, from the PutItem call on: [out, tbl]
WriteStatePut(d, tbl, keyAttr, state, built, fault) ==
    LET id == state.PersistenceId
        base == [Out("WriteState", id, "nil", ErrNone, ErrNone) EXCEPT
                    !.in = <<state>>, !.item = <<built.item>>,
                    !.before = ItemsAt(tbl, keyAttr, id),
                    !.merr = built.merr, !.fault = fault]
    IN  IF d.client = NilClient
        THEN [out |-> [base EXCEPT !.kind = "panic"], tbl |-> tbl]
        ELSE LET put == PutItem(tbl, keyAttr, built.item, fault)
             IN  IF put.err # ErrNone
                 THEN [out |-> [base EXCEPT !.kind = "err", !.err = ErrUpsert,
                                            !.cause = put.err],
                       tbl |-> put.tbl]
                 ELSE [out |-> base, tbl |-> put.tbl]

\* A variant of GetLatestStateOn used to test the absence claim.
GetLatestStateAbsentIsError(d, tbl, keyAttr, persistenceID, fault) ==
    LET base == [Out("GetLatestState", persistenceID, "absent", ErrNone, ErrNone)
                    EXCEPT !.fault = fault]
        resp == GetItem(tbl, keyAttr, (LookupKey :> S(persistenceID)), fault)
    IN  IF d.client = NilClient THEN [base EXCEPT !.kind = "panic"]
        ELSE IF resp.err # ErrNone
        THEN [base EXCEPT !.kind = "err", !.err = ErrFetch, !.cause = resp.err]
        ELSE [base EXCEPT !.kind = "err", !.err = ErrFetch, !.cause = "not found",
                          !.item = resp.Item]

\* GetLatestState on the receiver d
GetLatestStateOn(d, tbl, keyAttr, persistenceID, fault) ==
    LET base == [Out("GetLatestState", persistenceID, "absent", ErrNone, ErrNone)
                    EXCEPT !.fault = fault]
        key == (LookupKey :> S(persistenceID))
        resp == GetItem(tbl, keyAttr, key, fault)
    IN  IF d.client = NilClient THEN [base EXCEPT !.kind = "panic"]
        ELSE IF resp.err # ErrNone
        THEN [base EXCEPT !.kind = "err", !.err = ErrFetch, !.cause = resp.err]
        ELSE IF resp.Item = <<>> THEN base
        ELSE
        LET it == resp.Item[1]
            found == [base EXCEPT !.item = resp.Item]
        IN  IF ~(/\ Asserts(it, "VersionNumber", "N")
                 /\ Asserts(it, "StatePayload", "B")
                 /\ Asserts(it, "StateManifest", "S")
                 /\ Asserts(it, "Timestamp", "N")
                 /\ Asserts(it, "ShardNumber", "N"))
            THEN [found EXCEPT !.kind = "panic"]
            ELSE
            LET item == [PersistenceID |-> persistenceID,
                         VersionNumber |-> parseDynamoUint64(it.VersionNumber),
                         StatePayload  |-> it.StatePayload.v,
                         StateManifest |-> it.StateManifest.v,
                         Timestamp     |-> parseDynamoInt64(it.Timestamp),
                         ShardNumber   |-> parseDynamoUint64(it.ShardNumber)]
                res == toProto(item.StateManifest, item.StatePayload)
            IN  IF res.err # ErrNone
                THEN [found EXCEPT !.kind = "err", !.err = ErrUnmarshal,
                                   !.cause = res.err,
                                   !.unmarshalled = res.unmarshalled]
                ELSE [found EXCEPT !.kind = "state",
                                   !.unmarshalled = res.unmarshalled,
                                   !.state = <<[PersistenceId  |-> persistenceID,
                                                VersionNumber  |-> item.VersionNumber,
                                                ResultingState |-> res.any[1],
                                                Timestamp      |-> item.Timestamp,
                                                Shard          |-> item.ShardNumber]>>]

-----------------------------------------------------------------------------
(* The state machine *)

\* The store value is the zero value or was built with a client.  The table
\* has the partition key keyAttr and holds what other writers left in it.
InitWith(keyAttr, foreign) ==
    /\ tableKey = keyAttr
    /\ table \in {{}} \cup {{i} : i \in foreign}
    /\ client \in {NilClient, NewClient}
    /\ pending = [c \in Callers |-> <<>>]
    /\ last = Out("none", "", "none", ErrNone, ErrNone)
    /\ written = [a \in Actors |-> <<>>]
    /\ connected = FALSE

\* The table the README describes: PersistenceID is its partition key.
Init == InitWith(DocumentedKey, {LegacyItem(DocumentedKey, a) : a \in Actors})

\* A table whose partition key is the attribute GetLatestState looks up.
InitLookupKey ==
    InitWith(LookupKey, UNION {ForeignItems(LookupKey, a) : a \in Actors})

Idle(c) == pending[c] = <<>>

Connect(c) ==
    /\ Idle(c)
    /\ \E loadFails \in BOOLEAN :
          LET r == ConnectOn([client |-> client], loadFails)
          IN  /\ last' = Out("Connect", "", IF r.err = ErrNone THEN "nil" ELSE "err",
                             r.err, ErrNone)
              /\ connected' = (connected \/ r.err = ErrNone)
    /\ client' = client   \* r.d is the method's own copy of the store
    /\ UNCHANGED <<tableKey, table, pending, written>>

Disconnect(c) ==
    /\ Idle(c)
    /\ last' = Out("Disconnect", "", "nil", ErrNone, ErrNone)
    /\ UNCHANGED <<tableKey, table, client, pending, written, connected>>

Ping(c) ==
    /\ Idle(c)
    /\ \E fault \in BOOLEAN : last' = PingOn([client |-> client], fault)
    /\ UNCHANGED <<tableKey, table, client, pending, written, connected>>

WriteStateBegin(c, state) ==
    /\ Idle(c)
    /\ pending' = [pending EXCEPT ![c] =
                      <<[d |-> [client |-> client], state |-> state,
                         built |-> WriteStateItem(state)]>>]
    /\ UNCHANGED <<tableKey, table, client, last, written, connected>>

WriteStateEnd(c) ==
    /\ ~Idle(c)
    /\ \E fault \in BOOLEAN :
          LET call == pending[c][1]
              r == WriteStatePut(call.d, table, tableKey, call.state, call.built, fault)
          IN  /\ table' = r.tbl
              /\ last' = r.out
              /\ written' = IF r.out.kind = "nil"
                            THEN [written EXCEPT ![call.state.PersistenceId] = <<call.state>>]
                            ELSE written
    /\ pending' = [pending EXCEPT ![c] = <<>>]
    /\ UNCHANGED <<tableKey, client, connected>>

GetLatestState(c, persistenceID) ==
    /\ Idle(c)
    /\ \E fault \in BOOLEAN :
          last' = GetLatestStateOn([client |-> client], table, tableKey, persistenceID, fault)
    /\ UNCHANGED <<tableKey, table, client, pending, written, connected>>

Next ==
    \E c \in Callers :
        \/ Connect(c)
        \/ Disconnect(c)
        \/ Ping(c)
        \/ \E state \in DurableStates : WriteStateBegin(c, state)
        \/ WriteStateEnd(c)
        \/ \E persistenceID \in Actors : GetLatestState(c, persistenceID)

Spec == Init /\ [][Next]_vars

SpecLookupKey == InitLookupKey /\ [][Next]_vars

-----------------------------------------------------------------------------
(* Properties *)

\* the items stored under actor id a
ItemsOf(a) == ItemsAt(table, tableKey, a)

\* the record schema of the README: the six attributes and their backend types
SchemaTypes ==
    [PersistenceID |-> "S", VersionNumber |-> "N", StatePayload |-> "B",
     StateManifest |-> "S", Timestamp |-> "N", ShardNumber |-> "N"]

\* item has every data attribute the read path decodes, in the documented type
Decodable(item) ==
    \A n \in DOMAIN SchemaTypes \ {"PersistenceID"} :
        n \in DOMAIN item /\ item[n].t = SchemaTypes[n]

\* the call went through to the backend and the backend answered it
Answered == client # NilClient /\ last.cause \notin {ErrBackend, ErrValidation}

\* C1: a GetLatestState(A) that follows a successful WriteState of a record
\* with a well-formed payload for A, the lookup not failing in transport,
\* returns a record, with no error, that has the version, payload, timestamp
\* and shard of that write.
RoundTrip ==
    (/\ last.op = "GetLatestState"
     /\ ~last.fault
     /\ written[last.id] # <<>>
     /\ ~Marshal(written[last.id][1].ResultingState).err)
    => (/\ last.kind = "state"
        /\ last.err = ErrNone
        /\ last.state = written[last.id])

\* C2: a GetLatestState(A) whose lookup is answered, for an actor id A under
\* which nothing was ever written, returns the absent result: no record and
\* no error.
Absence ==
    (/\ last.op = "GetLatestState"
     /\ Answered
     /\ written[last.id] = <<>>
     /\ ItemsOf(last.id) = {})
    => (last.kind = "absent" /\ last.err = ErrNone /\ last.state = <<>>)

AbsenceWitness ==
    /\ last.op = "GetLatestState"
    /\ last.kind = "absent"
    /\ ItemsOf(last.id) = {}
    /\ table # {}

\* C3: once a WriteState for A has succeeded, the table holds exactly one item
\* for A, and it is the record of the most recent successful write with
\* nothing of an earlier item left in it; and a WriteState that reaches the
\* backend without a backend failure succeeds whatever version is stored.
Overwrite ==
    /\ \A a \in Actors :
          written[a] # <<>> =>
              LET w == written[a][1]
              IN  /\ Cardinality(ItemsOf(a)) = 1
                  /\ \A i \in ItemsOf(a) :
                        /\ DOMAIN i = DOMAIN SchemaTypes
                        /\ i.PersistenceID.v = a
                        /\ ParseUint(i.VersionNumber.v) = [n |-> w.VersionNumber, err |-> FALSE]
                        /\ i.StatePayload.v = Marshal(w.ResultingState).buf
                        /\ i.StateManifest.v = AnyFullName
                        /\ ParseInt(i.Timestamp.v) = [n |-> w.Timestamp, err |-> FALSE]
                        /\ ParseUint(i.ShardNumber.v) = [n |-> w.Shard, err |-> FALSE]
    /\ (last.op = "WriteState" /\ client # NilClient /\ ~last.fault)
          => (last.kind = "nil" /\ written[last.id] = last.in)

OverwriteWitness ==
    /\ last.op = "WriteState"
    /\ last.kind = "nil"
    /\ \E b \in last.before :
          /\ "Legacy" \notin DOMAIN b
          /\ b # last.item[1]
          /\ ParseUint(b.VersionNumber.v).n >= last.in[1].VersionNumber
    /\ ItemsOf(last.id) = {last.item[1]}

\* C4: the items stored under an actor id A change only in a step that
\* completes a successful WriteState targeting A, and then they become the
\* item of that call; a step completing a write to another id leaves them as
\* they were.
NoInterference ==
    [][\A a \in Actors :
          (ItemsOf(a))' # ItemsOf(a) =>
              /\ last'.op = "WriteState"
              /\ last'.id = a
              /\ last'.kind = "nil"
              /\ (ItemsOf(a))' = {last'.item[1]}
              /\ \E c \in Callers :
                    /\ pending[c] # <<>>
                    /\ pending'[c] = <<>>
                    /\ pending[c][1].state.PersistenceId = a]_vars

NoInterferenceWitness ==
    /\ last.op = "WriteState"
    /\ last.kind = "nil"
    /\ last.before # {last.item[1]}
    /\ \E c \in Callers :
          /\ pending[c] # <<>>
          /\ pending[c][1].state.PersistenceId # last.id
          /\ written[pending[c][1].state.PersistenceId] # <<>>

\* C5: a successful WriteState of the record that the last successful write
\* to the same actor id wrote leaves the table as it was.
Idempotence ==
    [][\A c \in Callers :
          (/\ pending[c] # <<>>
           /\ pending'[c] = <<>>
           /\ last'.kind = "nil"
           /\ written[pending[c][1].state.PersistenceId] = <<pending[c][1].state>>)
          => table' = table]_vars

IdempotenceWitness ==
    /\ last.op = "WriteState"
    /\ last.kind = "nil"
    /\ last.before = {last.item[1]}
    /\ written[last.id] = last.in

\* C6: every call on a store that holds a client ends in success or in an
\* error.  A WriteState whose payload serialization or upsert fails returns an
\* error and leaves the items of its actor id as they were; one that succeeds
\* has stored the whole record, payload included.  A GetLatestState that
\* fails returns an error and no record.
AllOrNothing ==
    client # NilClient =>
        /\ last.kind # "panic"
        /\ last.op = "WriteState" =>
              /\ (last.merr \/ last.fault) => last.kind = "err"
              /\ last.kind = "err" => ItemsOf(last.id) = last.before
              /\ last.kind = "nil" =>
                    /\ ItemsOf(last.id) = {last.item[1]}
                    /\ Unmarshal(last.item[1].StatePayload.v, NewMessage(AnyFullName))
                          = [msg |-> [mt |-> AnyFullName,
                                      type_url |-> last.in[1].ResultingState.type_url,
                                      value |-> last.in[1].ResultingState.value],
                             err |-> FALSE]
        /\ last.op = "GetLatestState" =>
              /\ last.kind \in {"err", "absent", "state"}
              /\ last.kind = "err" => last.state = <<>>

\* C7: a GetLatestState that fetched an item of the documented attribute
\* types whose StateManifest is not registered returns the type-resolution
\* error, without proto.Unmarshal having run, and no record.
UnknownType ==
    (/\ last.op = "GetLatestState"
     /\ last.item # <<>>
     /\ Decodable(last.item[1])
     /\ last.item[1].StateManifest.v \notin GlobalTypes)
    => (/\ last.kind = "err"
        /\ last.err = ErrUnmarshal
        /\ last.cause = ErrNotFound
        /\ ~last.unmarshalled
        /\ last.state = <<>>)

UnknownTypeWitness ==
    /\ last.op = "GetLatestState"
    /\ last.item # <<>>
    /\ last.item[1].StateManifest.v \notin GlobalTypes
    /\ Unmarshal(last.item[1].StatePayload.v, NewMessage(AnyFullName)).err
    /\ last.cause = ErrNotFound

\* C8: a GetLatestState that fetched an item of the documented attribute
\* types whose StateManifest is registered returns the decode error and no
\* record when the payload does not parse as that type, and the type-mismatch
\* error and no record when it parses but the type is not the envelope type.
MalformedPayload ==
    (/\ last.op = "GetLatestState"
     /\ last.item # <<>>
     /\ Decodable(last.item[1])
     /\ last.item[1].StateManifest.v \in GlobalTypes)
    => LET mt == last.item[1].StateManifest.v
           parsed == Unmarshal(last.item[1].StatePayload.v, NewMessage(mt))
       IN  /\ parsed.err =>
                 (/\ last.kind = "err" /\ last.err = ErrUnmarshal
                  /\ last.cause = ErrDecode /\ last.state = <<>>)
           /\ (~parsed.err /\ mt # AnyFullName) =>
                 (/\ last.kind = "err" /\ last.err = ErrUnmarshal
                  /\ last.cause = ErrUnpack /\ last.state = <<>>)

MalformedPayloadWitness ==
    /\ last.op = "GetLatestState"
    /\ last.item # <<>>
    /\ last.item[1].StateManifest.v = AnyFullName
    /\ last.item[1].StatePayload.v = Truncated
    /\ last.cause = ErrDecode

\* C9: the item of every WriteState has exactly the six attributes of the
\* documented schema, each in its documented backend type.
RecordSchema ==
    \A c \in Callers :
        pending[c] # <<>> =>
            LET item == pending[c][1].built.item
            IN  /\ DOMAIN item = DOMAIN SchemaTypes
                /\ \A n \in DOMAIN SchemaTypes : item[n].t = SchemaTypes[n]

\* C10: once a Connect has returned nil, the store holds a client, and no
\* later Ping or GetLatestState runs into a nil client.
ConnectionLifecycle ==
    connected =>
        /\ client # NilClient
        /\ last.op \in {"Ping", "GetLatestState"} => last.kind # "panic"

====
